---- MODULE Spec2Model ----
(***************************************************************************)
(* Model of services/monitoring.rs of the vesu liquidator: the monitoring  *)
(* loop (run_forever), the sweep (monitor_positions_liquidability), the    *)
(* liquidation and reward distribution (liquidate_position), the 256-bit   *)
(* value (U256 and its Sub) and the event extractor                        *)
(* (parse_liquidation_event).                                              *)
(*                                                                         *)
(* Integers are scaled: a u128 limb has LimbBits bits instead of 128 and   *)
(* an f64 has MantBits significand bits instead of 53 (MantBits < LimbBits *)
(* as 53 < 128), so that limb overflow, borrow, saturation and rounding    *)
(* all happen inside the numbers TLC can hold.                             *)
(***************************************************************************)
EXTENDS Integers, Sequences, FiniteSets, TLC

\* ------------------------------------------------------------------ bounds
LimbBits == 3
MantBits == 2
MaxChan == 2

\* ------------------------------------------------------- fixed-width value
\* Option<T>: None is the empty sequence, Some(v) the sequence of v alone
None == <<>>
Some(v) == <<v>>
IsSome(o) == o # <<>>
Unwrap(o) == o[1]

LimbMod == 2^LimbBits
U128 == 0..(LimbMod - 1)
U128Max == LimbMod - 1

\* pub struct U256 { low: u128, high: u128 }
U256 == [low : U128, high : U128]

MkU256(l, h) == [low |-> l, high |-> h]

\* the integer a U256 stands for: high * 2^128 + low
Value(u) == u.high * LimbMod + u.low

\* u128::overflowing_sub: the wrapped difference and whether it borrowed
OverflowingSub(x, y) == [val |-> (x - y + LimbMod) % LimbMod, borrow |-> x < y]

\* u128::saturating_sub
SaturatingSub(x, y) == IF x >= y THEN x - y ELSE 0

\* a mutant of the high limb: the borrow is not taken from it
SubHighNoBorrow(a, b, borrow) == SaturatingSub(a.high, b.high)

\* the high limb of a - b (lines 352-357)
SubHigh(a, b, borrow) ==
    IF borrow
    THEN SaturatingSub(SaturatingSub(a.high, b.high), 1)
    ELSE SaturatingSub(a.high, b.high)

\* impl Sub for U256
U256Sub(a, b) ==
    LET lo == OverflowingSub(a.low, b.low)
    IN  MkU256(lo.val, SubHigh(a, b, lo.borrow))

\* ------------------------------------------------------------ f64 arithmetic
\* A finite non-negative f64 is m * 2^e with m = 0, or m of exactly MantBits
\* bits; the two other classes are +infinity and NaN.
FZero == [cls |-> "fin", m |-> 0, e |-> 0]
FInf == [cls |-> "inf", m |-> 0, e |-> 0]
FNaN == [cls |-> "nan", m |-> 0, e |-> 0]

MantLo == 2^(MantBits - 1)
MantHi == 2^MantBits

\* exponents that the values of the model can take
ExpRange == (0 - (LimbBits + MantBits + 1))..(3 * LimbBits + 1)

ScaledNum(n, e) == IF e < 0 THEN n * 2^(0 - e) ELSE n
ScaledDen(d, e) == IF e > 0 THEN d * 2^e ELSE d

\* the nearest f64 to the rational n/d (n >= 0, d > 0), ties to even
RoundRat(n, d) ==
    IF n = 0 THEN FZero
    ELSE LET e == CHOOSE x \in ExpRange :
                    /\ MantLo * ScaledDen(d, x) <= ScaledNum(n, x)
                    /\ ScaledNum(n, x) < MantHi * ScaledDen(d, x)
             N == ScaledNum(n, e)
             D == ScaledDen(d, e)
             q == N \div D
             r == N - q * D
             up == (2 * r > D) \/ (2 * r = D /\ q % 2 = 1)
             m == IF up THEN q + 1 ELSE q
         IN  IF m = MantHi
             THEN [cls |-> "fin", m |-> MantLo, e |-> e + 1]
             ELSE [cls |-> "fin", m |-> m, e |-> e]

\* `x as f64` of an unsigned integer
IntToF64(x) == RoundRat(x, 1)

\* the rational value of a finite f64, as numerator and denominator
FNum(f) == IF f.e >= 0 THEN f.m * 2^(f.e) ELSE f.m
FDen(f) == IF f.e >= 0 THEN 1 ELSE 2^(0 - f.e)

F64Add(x, y) == RoundRat(FNum(x) * FDen(y) + FNum(y) * FDen(x), FDen(x) * FDen(y))

F64Mul(x, y) ==
    IF x.cls = "nan" \/ y.cls = "nan" THEN FNaN
    ELSE IF x.cls = "inf" \/ y.cls = "inf"
         THEN (IF (x.cls = "fin" /\ x.m = 0) \/ (y.cls = "fin" /\ y.m = 0)
               THEN FNaN ELSE FInf)
         ELSE RoundRat(FNum(x) * FNum(y), FDen(x) * FDen(y))

\* x / y of two finite f64
F64Div(x, y) ==
    IF y.m = 0
    THEN (IF x.m = 0 THEN FNaN ELSE FInf)
    ELSE RoundRat(FNum(x) * FDen(y), FDen(x) * FNum(y))

\* `f as u128`: truncates toward zero, saturates at u128::MAX, NaN gives 0
F64ToU128(f) ==
    IF f.cls = "nan" THEN 0
    ELSE IF f.cls = "inf" THEN U128Max
    ELSE LET t == FNum(f) \div FDen(f)
         IN  IF t > U128Max THEN U128Max ELSE t

\* (total.low as f64) + ((total.high as f64) * 2^128)
TotalEarningsF64(total) ==
    F64Add(IntToF64(total.low), F64Mul(IntToF64(total.high), IntToF64(LimbMod)))

\* the claimant's share (lines 300-310)
PlayerShare(total, score, highest) ==
    LET ratio == F64Div(IntToF64(score), IntToF64(highest))
        share == F64Mul(TotalEarningsF64(total), ratio)
    IN  MkU256(F64ToU128(share), 0)

\* the remainder for the world contract (line 311)
WorldShare(total, share) == U256Sub(total, share)

\* ------------------------------------------------------------ configuration
\* config.liquidate_address, the address of the liquidation contract
LiquidateAddress == 11
\* config.world_address, the fallback sink of the distribution
WorldAddress == 12
\* an address that is not the liquidation contract's
OtherAddress == 13
\* the collateral asset an event names
AssetAddress == 14
\* the claimant's address, FieldElement::from_hex_be of a well-formed player
PlayerAddress == 15
\* get_selector_from_name("Liquidation")
LiquidationSelector == 21
\* get_selector_from_name("transfer")
TransferSelector == 22
\* a selector of some other event
OtherSelector == 23

\* ------------------------------------------------------------ event extractor
\* FieldElement -> u128 (try_into): a felt above u128::MAX does not convert
TryIntoU128(f) == IF f <= U128Max THEN Some(f) ELSE None

\* a felt that does not fit u128
BigFelt == LimbMod

MkEvent(from, keys, data) == [from_address |-> from, keys |-> keys, data |-> data]

\* the event the liquidation contract emits for an amount
LiquidationEvent(amount) ==
    MkEvent(LiquidateAddress, <<LiquidationSelector>>,
            <<AssetAddress, amount.low, amount.high>>)

\* line 375: the event comes from the contract and its first key is the selector
EventMatches(event, contract_address) ==
    /\ event.from_address = contract_address
    /\ event.keys # <<>>
    /\ event.keys[1] = LiquidationSelector

RECURSIVE parse_liquidation_event(_, _)
parse_liquidation_event(events, contract_address) ==
    IF events = <<>> THEN None
    ELSE LET event == Head(events)
         IN  IF EventMatches(event, contract_address) /\ Len(event.data) >= 3
             THEN LET amount_low == TryIntoU128(event.data[2])
                      amount_high == TryIntoU128(event.data[3])
                  IN  IF IsSome(amount_low) /\ IsSome(amount_high)
                      THEN Some([asset |-> event.data[1],
                                 amount |-> MkU256(Unwrap(amount_low), Unwrap(amount_high))])
                      ELSE None
             ELSE parse_liquidation_event(Tail(events), contract_address)

\* -------------------------------------------------------------------- state
VARIABLES
    pc,            \* where run_forever is: the next await point, or "failed"
    receiverHeld,  \* the guard of positions_receiver is held
    tickDue,       \* update_interval.tick() is ready
    channel,       \* the updates sent and not yet received, oldest first
    senderAlive,   \* the sending end of the channel is not dropped
    positions,     \* self.positions: key -> Option<Position>
    position_keys, \* the keys of the sweep not yet done, the current one first
    positions_to_delete,
    new_position,  \* Option of the (block_number, position) taken from the channel
    saveCalls,     \* the storage.save calls of this iteration
    exitCause,     \* why run_forever returned Err
    noRetry,       \* keys whose attempt failed with the marker, no update since
    failedKeys,    \* keys whose attempt failed without the marker in this sweep
    txs,           \* the transactions execute_txs accepted in this attempt
    queries,       \* the Torii queries sent in this attempt
    receipt,       \* Option of the liquidation receipt's events
    redeemer,      \* Option of the RedeemModel found
    highest_query, \* Option of what get_highest_score returned (itself an Option)
    highest_score, \* Option of the reference score used
    total_earnings,\* Option of the (asset, amount) parsed from the receipt
    result,        \* Option of what liquidate_position returned
    lhs, rhs, diff,\* the operands and the result of one U256 subtraction
    input_events, extracted \* the events given to parse_liquidation_event and its result

loopVars == <<pc, receiverHeld, tickDue, channel, senderAlive, positions,
              position_keys, positions_to_delete, new_position, saveCalls,
              exitCause, noRetry, failedKeys>>
liqVars == <<txs, queries, receipt, redeemer, highest_query, highest_score,
             total_earnings, result>>
subVars == <<lhs, rhs, diff, input_events, extracted>>
vars == <<loopVars, liqVars, subVars>>

Keys == {1, 2}
Heights == {1, 2}

\* a Position as far as this file reads it: key() and is_closed()
MkPosition(k, c) == [key |-> k, closed |-> c]
is_closed(p) == p.closed

Ok == [ok |-> TRUE, marker |-> FALSE, at |-> "none"]
Err(at, marker) == [ok |-> FALSE, marker |-> marker, at |-> at]

\* e.to_string().contains("not-undercollateralized")
HasMarker(e) == e.marker

\* ------------------------------------------------------ liquidate_position
\* the liquidation call of a position, and the distribution multicall
LiquidationTx(key) == [kind |-> "liquidate", key |-> key, calls |-> <<>>]

build_erc20_transfer_call(token_address, recipient, amount) ==
    [contract_address |-> token_address,
     entry_point_selector |-> TransferSelector,
     calldata |-> <<recipient, amount.low, amount.high>>]

\* a well-formed player string parses to the claimant's address
WellFormed == "0xplayer"
Malformed == "not-hex"
Players == {WellFormed, Malformed}
FromHexBe(player) == IF player = WellFormed THEN Some(PlayerAddress) ELSE None

MkRedeemer(player, score) == [player |-> player, score |-> score]

\* the key of the position run_forever is liquidating
CurrentKey == Head(position_keys)

\* liquidate_position returns r
Return(r) ==
    /\ pc' = "liq_ret"
    /\ result' = Some(r)

\* position.get_vesu_liquidate_tx(..).await?
BuildLiquidationTx ==
    /\ pc = "liq_build"
    /\ \/ /\ pc' = "liq_exec"
          /\ UNCHANGED result
       \/ \E m \in BOOLEAN : Return(Err("get_vesu_liquidate_tx", m))
    /\ UNCHANGED <<txs, queries, receipt, redeemer, highest_query, highest_score,
                   total_earnings>>
    /\ UNCHANGED <<receiverHeld, tickDue, channel, senderAlive, positions,
                   position_keys, positions_to_delete, new_position, saveCalls,
                   exitCause, noRetry, failedKeys, subVars>>

\* self.account.execute_txs(&[liquidation_tx]).await?
ExecuteLiquidationTx ==
    /\ pc = "liq_exec"
    /\ \/ /\ pc' = "liq_wait"
          /\ txs' = Append(txs, LiquidationTx(CurrentKey))
          /\ UNCHANGED result
       \/ /\ \E m \in BOOLEAN : Return(Err("execute_txs", m))
          /\ UNCHANGED txs
    /\ UNCHANGED <<queries, receipt, redeemer, highest_query, highest_score,
                   total_earnings>>
    /\ UNCHANGED <<receiverHeld, tickDue, channel, senderAlive, positions,
                   position_keys, positions_to_delete, new_position, saveCalls,
                   exitCause, noRetry, failedKeys, subVars>>

\* a mutant of the wait: its failure ends run_forever
WaitForTxFatal(receipts) ==
    /\ pc = "liq_wait"
    /\ \/ /\ pc' = "liq_queue"
          /\ \E events \in receipts : receipt' = Some(events)
          /\ UNCHANGED exitCause
       \/ /\ pc' = "failed"
          /\ exitCause' = "wait_for_tx"
          /\ UNCHANGED receipt
    /\ UNCHANGED <<txs, queries, redeemer, highest_query, highest_score,
                   total_earnings, result>>
    /\ UNCHANGED <<receiverHeld, tickDue, channel, senderAlive, positions,
                   position_keys, positions_to_delete, new_position, saveCalls,
                   noRetry, failedKeys, subVars>>

\* a mutant of the wait: the claim queue is queried while the confirmation is
\* still awaited, so that the query is issued even when the wait fails
WaitForTxQueriesEarly(receipts) ==
    /\ pc = "liq_wait"
    /\ \/ /\ pc' = "liq_queue"
          /\ \E events \in receipts : receipt' = Some(events)
          /\ UNCHANGED <<result, queries>>
       \/ /\ \E m \in BOOLEAN : Return(Err("wait_for_tx", m))
          /\ queries' = Append(queries, "redeemModels")
          /\ UNCHANGED receipt
    /\ UNCHANGED <<txs, redeemer, highest_query, highest_score, total_earnings>>
    /\ UNCHANGED <<receiverHeld, tickDue, channel, senderAlive, positions,
                   position_keys, positions_to_delete, new_position, saveCalls,
                   exitCause, noRetry, failedKeys, subVars>>

\* wait_for_tx(&self.rpc_client, tx_hash).await?
WaitForTx(receipts) ==
    /\ pc = "liq_wait"
    /\ \/ /\ pc' = "liq_queue"
          /\ \E events \in receipts : receipt' = Some(events)
          /\ UNCHANGED result
       \/ /\ \E m \in BOOLEAN : Return(Err("wait_for_tx", m))
          /\ UNCHANGED receipt
    /\ UNCHANGED <<txs, queries, redeemer, highest_query, highest_score,
                   total_earnings>>
    /\ UNCHANGED <<receiverHeld, tickDue, channel, senderAlive, positions,
                   position_keys, positions_to_delete, new_position, saveCalls,
                   exitCause, noRetry, failedKeys, subVars>>

\* a mutant of the claim-queue query: its failure ends run_forever
FindNextPlayerInQueueFatal(redeemers) ==
    /\ pc = "liq_queue"
    /\ queries' = Append(queries, "redeemModels")
    /\ \/ /\ \E r \in redeemers : redeemer' = Some(r)
          /\ pc' = "liq_highest"
          /\ UNCHANGED <<result, exitCause>>
       \/ /\ Return(Ok)
          /\ UNCHANGED <<redeemer, exitCause>>
       \/ /\ pc' = "failed"
          /\ exitCause' = "find_next_player_in_queue"
          /\ UNCHANGED <<redeemer, result>>
    /\ UNCHANGED <<txs, receipt, highest_query, highest_score, total_earnings>>
    /\ UNCHANGED <<receiverHeld, tickDue, channel, senderAlive, positions,
                   position_keys, positions_to_delete, new_position, saveCalls,
                   noRetry, failedKeys, subVars>>

\* self.find_next_player_in_queue().await?
FindNextPlayerInQueue(redeemers) ==
    /\ pc = "liq_queue"
    /\ queries' = Append(queries, "redeemModels")
    /\ \/ /\ \E r \in redeemers : redeemer' = Some(r)
          /\ pc' = "liq_highest"
          /\ UNCHANGED result
       \/ /\ Return(Ok)                          \* no player in the queue
          /\ UNCHANGED redeemer
       \/ /\ Return(Err("find_next_player_in_queue", FALSE))
          /\ UNCHANGED redeemer
    /\ UNCHANGED <<txs, receipt, highest_query, highest_score, total_earnings>>
    /\ UNCHANGED <<receiverHeld, tickDue, channel, senderAlive, positions,
                   position_keys, positions_to_delete, new_position, saveCalls,
                   exitCause, noRetry, failedKeys, subVars>>

\* a mutant of the zero check: the check is left out
HighestIsZeroNever(score) == FALSE

\* line 282: highest_score == 0
HighestIsZero(score) == score = 0

\* line 281: get_highest_score()?.unwrap_or(redeemer.score)
ReferenceOr(found, player_score) == IF IsSome(found) THEN Unwrap(found) ELSE player_score

\* lines 300-324: the two transfer calls, the claimant's first
DistributionCalls(asset, player_address, total, score, highest) ==
    LET player_share == PlayerShare(total, score, highest)
        world_share == WorldShare(total, player_share)
    IN  <<build_erc20_transfer_call(asset, player_address, player_share),
          build_erc20_transfer_call(asset, WorldAddress, world_share)>>

\* the multicall of this attempt, from the locals of liquidate_position
DistributionTx ==
    LET earnings == Unwrap(total_earnings)
        player == Unwrap(redeemer)
    IN  [kind |-> "transfer", key |-> CurrentKey,
         calls |-> DistributionCalls(earnings.asset, Unwrap(FromHexBe(player.player)),
                                     earnings.amount, player.score,
                                     Unwrap(highest_score))]

\* self.get_highest_score().await?, then lines 281-324 up to the multicall
GetHighestScore(scores) ==
    /\ pc = "liq_highest"
    /\ queries' = Append(queries, "highestScoreModels")
    /\ \/ /\ Return(Err("get_highest_score", FALSE))
          /\ UNCHANGED <<highest_query, highest_score, total_earnings>>
       \/ \E found \in {None} \cup {Some(x) : x \in scores} :
            LET reference == ReferenceOr(found, Unwrap(redeemer).score)
                parsed == parse_liquidation_event(Unwrap(receipt), LiquidateAddress)
            IN  /\ highest_query' = Some(found)
                /\ highest_score' = Some(reference)
                /\ IF HighestIsZero(reference)
                   THEN /\ Return(Ok)
                        /\ UNCHANGED total_earnings
                   ELSE IF ~IsSome(parsed)
                   THEN /\ Return(Ok)
                        /\ UNCHANGED total_earnings
                   ELSE /\ total_earnings' = parsed
                        /\ IF IsSome(FromHexBe(Unwrap(redeemer).player))
                           THEN /\ pc' = "dist_exec"
                                /\ UNCHANGED result
                           ELSE Return(Err("from_hex_be", FALSE))
    /\ UNCHANGED <<txs, receipt, redeemer>>
    /\ UNCHANGED <<receiverHeld, tickDue, channel, senderAlive, positions,
                   position_keys, positions_to_delete, new_position, saveCalls,
                   exitCause, noRetry, failedKeys, subVars>>

\* self.account.execute_txs(&[player_transfer_call, world_transfer_call]).await?
ExecuteDistributionTx ==
    /\ pc = "dist_exec"
    /\ \/ /\ \E m \in BOOLEAN : Return(Err("execute_txs_distribution", m))
          /\ UNCHANGED txs
       \/ /\ pc' = "dist_wait"
          /\ txs' = Append(txs, DistributionTx)
          /\ UNCHANGED result
    /\ UNCHANGED <<queries, receipt, redeemer, highest_query, highest_score,
                   total_earnings>>
    /\ UNCHANGED <<receiverHeld, tickDue, channel, senderAlive, positions,
                   position_keys, positions_to_delete, new_position, saveCalls,
                   exitCause, noRetry, failedKeys, subVars>>

\* wait_for_tx(&self.rpc_client, dist_tx_hash).await?
WaitForDistributionTx ==
    /\ pc = "dist_wait"
    /\ \/ Return(Ok)
       \/ \E m \in BOOLEAN : Return(Err("wait_for_tx_distribution", m))
    /\ UNCHANGED <<txs, queries, receipt, redeemer, highest_query, highest_score,
                   total_earnings>>
    /\ UNCHANGED <<receiverHeld, tickDue, channel, senderAlive, positions,
                   position_keys, positions_to_delete, new_position, saveCalls,
                   exitCause, noRetry, failedKeys, subVars>>

\* the locals of liquidate_position before it is entered
LiqIdle ==
    /\ txs = <<>>
    /\ queries = <<>>
    /\ receipt = None
    /\ redeemer = None
    /\ highest_query = None
    /\ highest_score = None
    /\ total_earnings = None
    /\ result = None

\* the locals of liquidate_position go out of scope
ClearLocals ==
    /\ txs' = <<>>
    /\ queries' = <<>>
    /\ receipt' = None
    /\ redeemer' = None
    /\ highest_query' = None
    /\ highest_score' = None
    /\ total_earnings' = None

\* the operands of the specifications of the pure functions, unused elsewhere
SubIdle ==
    /\ lhs = MkU256(0, 0)
    /\ rhs = MkU256(0, 0)
    /\ diff = None
    /\ input_events = <<>>
    /\ extracted = None

\* self.positions with one open position per key of S
StoreOf(S) == [k \in Keys |-> IF k \in S THEN Some(MkPosition(k, FALSE)) ELSE None]

\* --------------------------------------- one call of liquidate_position
\* every receipt of at most one event: none, the contract's Liquidation event
\* of any amount, an event of another contract
Receipts ==
    {<<>>} \cup {<<LiquidationEvent(a)>> : a \in U256}
           \cup {<<MkEvent(OtherAddress, <<LiquidationSelector>>, <<AssetAddress, 1, 0>>)>>}

Redeemers == {MkRedeemer(p, s) : p \in Players, s \in U128}

LiqInit ==
    /\ pc = "liq_build"
    /\ receiverHeld = FALSE
    /\ tickDue = FALSE
    /\ channel = <<>>
    /\ senderAlive = TRUE
    /\ positions = StoreOf({1})
    /\ position_keys = <<1>>
    /\ positions_to_delete = <<>>
    /\ new_position = None
    /\ saveCalls = <<>>
    /\ exitCause = "none"
    /\ noRetry = {}
    /\ failedKeys = {}
    /\ LiqIdle
    /\ SubIdle

LiqNext ==
    \/ BuildLiquidationTx
    \/ ExecuteLiquidationTx
    \/ WaitForTx(Receipts)
    \/ FindNextPlayerInQueue(Redeemers)
    \/ GetHighestScore(U128)
    \/ ExecuteDistributionTx
    \/ WaitForDistributionTx

LiqSpec == LiqInit /\ [][LiqNext]_vars

\* -------------------------------------------------- one U256 subtraction
SubInit ==
    /\ pc = "sub"
    /\ receiverHeld = FALSE
    /\ tickDue = FALSE
    /\ channel = <<>>
    /\ senderAlive = TRUE
    /\ positions = StoreOf({})
    /\ position_keys = <<>>
    /\ positions_to_delete = <<>>
    /\ new_position = None
    /\ saveCalls = <<>>
    /\ exitCause = "none"
    /\ noRetry = {}
    /\ failedKeys = {}
    /\ LiqIdle
    /\ lhs \in U256
    /\ rhs \in U256
    /\ diff = None
    /\ input_events = <<>>
    /\ extracted = None

\* diff = lhs - rhs
Subtract ==
    /\ pc = "sub"
    /\ diff = None
    /\ diff' = Some(U256Sub(lhs, rhs))
    /\ UNCHANGED <<lhs, rhs, input_events, extracted, loopVars, liqVars>>

SubNext == Subtract

SubSpec == SubInit /\ [][SubNext]_vars

\* ------------------------------------------- parse_liquidation_event alone
\* the longest receipt given to the extractor
MaxEvents == 2

\* the keys and the payloads an event of a receipt can carry: no key, the
\* Liquidation selector or another one; a payload of 0, 2 or 3 felts, with an
\* amount that fits u128 or not
EventKeys == {<<>>, <<LiquidationSelector>>, <<OtherSelector>>}

EventData ==
    {<<>>, <<AssetAddress, 1>>, <<AssetAddress, 1, 0>>, <<AssetAddress, 2, 1>>,
     <<AssetAddress, BigFelt, 0>>}

ReceiptEvents ==
    {MkEvent(from, keys, data) :
        from \in {LiquidateAddress, OtherAddress}, keys \in EventKeys, data \in EventData}

EventLists == UNION {[1..n -> ReceiptEvents] : n \in 0..MaxEvents}

ParseInit ==
    /\ pc = "parse"
    /\ receiverHeld = FALSE
    /\ tickDue = FALSE
    /\ channel = <<>>
    /\ senderAlive = TRUE
    /\ positions = StoreOf({})
    /\ position_keys = <<>>
    /\ positions_to_delete = <<>>
    /\ new_position = None
    /\ saveCalls = <<>>
    /\ exitCause = "none"
    /\ noRetry = {}
    /\ failedKeys = {}
    /\ LiqIdle
    /\ lhs = MkU256(0, 0)
    /\ rhs = MkU256(0, 0)
    /\ diff = None
    /\ input_events \in EventLists
    /\ extracted = None

\* extracted = parse_liquidation_event(&events, liquidate_address)
Parse ==
    /\ pc = "parse"
    /\ extracted = None
    /\ extracted' = Some(parse_liquidation_event(input_events, LiquidateAddress))
    /\ UNCHANGED <<lhs, rhs, diff, input_events, loopVars, liqVars>>

ParseNext == Parse

ParseSpec == ParseInit /\ [][ParseNext]_vars

\* ------------------------------------------------------------ run_forever
\* the orders in which the keys of S can come out of the map's iterator
RECURSIVE Orders(_)
Orders(S) ==
    IF S = {} THEN {<<>>}
    ELSE UNION {{<<k>> \o rest : rest \in Orders(S \ {k})} : k \in S}

StoredKeys == {k \in Keys : IsSome(positions[k])}

\* run_forever returns Err
Fail(cause) ==
    /\ pc' = "failed"
    /\ exitCause' = cause

\* let mut receiver = self.positions_receiver.lock().await
LockReceiver ==
    /\ pc = "lock"
    /\ ~receiverHeld
    /\ receiverHeld' = TRUE
    /\ pc' = "select"
    /\ saveCalls' = <<>>
    /\ failedKeys' = {}
    /\ UNCHANGED <<tickDue, channel, senderAlive, positions, position_keys,
                   positions_to_delete, new_position, exitCause, noRetry,
                   liqVars, subVars>>

\* a mutant of the tick branch: the guard of the receiver is not dropped
\* before the sweep
TickKeepsGuard ==
    /\ pc = "select"
    /\ tickDue
    /\ tickDue' = FALSE
    /\ IF StoredKeys = {}
       THEN /\ pc' = "lock"
            /\ receiverHeld' = FALSE
            /\ UNCHANGED <<position_keys, positions_to_delete>>
       ELSE /\ pc' = "sweep"
            /\ position_keys' \in Orders(StoredKeys)
            /\ positions_to_delete' = <<>>
            /\ UNCHANGED receiverHeld
    /\ UNCHANGED <<channel, senderAlive, positions, new_position, saveCalls,
                   exitCause, noRetry, failedKeys, liqVars, subVars>>

\* the tick branch of the select: drop(receiver), then the sweep begins
\* (lines 132-137) or returns at once on an empty store
Tick ==
    /\ pc = "select"
    /\ tickDue
    /\ tickDue' = FALSE
    /\ receiverHeld' = FALSE
    /\ IF StoredKeys = {}
       THEN /\ pc' = "lock"
            /\ UNCHANGED <<position_keys, positions_to_delete>>
       ELSE /\ pc' = "sweep"
            /\ position_keys' \in Orders(StoredKeys)
            /\ positions_to_delete' = <<>>
    /\ UNCHANGED <<channel, senderAlive, positions, new_position, saveCalls,
                   exitCause, noRetry, failedKeys, liqVars, subVars>>

\* a mutant of the recv branch: taking an update also uses up the due tick
ReceiveUpdateUsesTick ==
    /\ pc = "select"
    /\ channel # <<>>
    /\ new_position' = Some(Head(channel))
    /\ channel' = Tail(channel)
    /\ receiverHeld' = FALSE
    /\ noRetry' = noRetry \ {Head(channel).key}
    /\ tickDue' = FALSE
    /\ pc' = "update"
    /\ UNCHANGED <<failedKeys, senderAlive, positions, position_keys,
                   positions_to_delete, saveCalls, exitCause, liqVars, subVars>>

\* the recv branch of the select yields Some((block_number, new_position))
ReceiveUpdate ==
    /\ pc = "select"
    /\ channel # <<>>
    /\ new_position' = Some(Head(channel))
    /\ channel' = Tail(channel)
    /\ receiverHeld' = FALSE
    /\ noRetry' = noRetry \ {Head(channel).key}
    /\ pc' = "update"
    /\ UNCHANGED <<failedKeys, tickDue, senderAlive, positions, position_keys,
                   positions_to_delete, saveCalls, exitCause, liqVars, subVars>>

\* a mutant of the None arm: the closed channel is ignored and the loop goes on
ReceiveNoneContinues ==
    /\ pc = "select"
    /\ channel = <<>>
    /\ ~senderAlive
    /\ receiverHeld' = FALSE
    /\ pc' = "lock"
    /\ UNCHANGED <<tickDue, channel, senderAlive, positions, position_keys,
                   positions_to_delete, new_position, saveCalls, exitCause, noRetry,
                   failedKeys, liqVars, subVars>>

\* the recv branch yields None: the channel is closed and empty
ReceiveNone ==
    /\ pc = "select"
    /\ channel = <<>>
    /\ ~senderAlive
    /\ receiverHeld' = FALSE
    /\ Fail("channel_closed")
    /\ UNCHANGED <<tickDue, channel, senderAlive, positions, position_keys,
                   positions_to_delete, new_position, saveCalls, noRetry, failedKeys,
                   liqVars, subVars>>

\* new_position.update(..).await?, then lines 115-118
UpdateNewPosition ==
    /\ pc = "update"
    /\ \/ /\ Fail("update")
          /\ UNCHANGED <<positions, new_position>>
       \/ /\ \E closed \in BOOLEAN :
               LET key == Unwrap(new_position).key
               IN  IF is_closed(MkPosition(key, closed))
                   THEN /\ pc' = "lock"                      \* continue
                        /\ new_position' = None
                        /\ UNCHANGED positions
                   ELSE /\ positions' =
                              [positions EXCEPT ![key] = Some(MkPosition(key, closed))]
                        /\ pc' = "save"
                        /\ UNCHANGED new_position
          /\ UNCHANGED exitCause
    /\ UNCHANGED <<receiverHeld, tickDue, channel, senderAlive, position_keys,
                   positions_to_delete, saveCalls, noRetry, failedKeys, liqVars, subVars>>

\* the arguments of one storage.save call
SaveCall(snapshot, block_number) == [positions |-> snapshot, block_number |-> block_number]

\* a mutant of the save: only the position just received is handed to the
\* persistence layer, not the full store
SaveStoreNewOnly ==
    /\ pc = "save"
    /\ saveCalls' = Append(saveCalls,
                           SaveCall([k \in Keys |-> IF k = Unwrap(new_position).key
                                                    THEN positions[k] ELSE None],
                                    Unwrap(new_position).block))
    /\ \/ /\ Fail("save")
          /\ UNCHANGED new_position
       \/ /\ new_position' = None
          /\ pc' = "lock"
          /\ UNCHANGED exitCause
    /\ UNCHANGED <<receiverHeld, tickDue, channel, senderAlive, positions,
                   position_keys, positions_to_delete, noRetry, failedKeys, liqVars, subVars>>

\* self.storage.lock().await.save(&self.positions.0, block_number).await?
SaveStore ==
    /\ pc = "save"
    /\ saveCalls' = Append(saveCalls, SaveCall(positions, Unwrap(new_position).block))
    /\ \/ /\ Fail("save")
          /\ UNCHANGED new_position
       \/ /\ new_position' = None
          /\ pc' = "lock"
          /\ UNCHANGED exitCause
    /\ UNCHANGED <<receiverHeld, tickDue, channel, senderAlive, positions,
                   position_keys, positions_to_delete, noRetry, failedKeys, liqVars, subVars>>

\* -------------------------------------- monitor_positions_liquidability
\* the next key of the sweep: get_mut, then is_liquidable(..).await?
CheckLiquidable ==
    /\ pc = "sweep"
    /\ position_keys # <<>>
    /\ IF ~IsSome(positions[CurrentKey])
       THEN /\ position_keys' = Tail(position_keys)
            /\ UNCHANGED <<pc, exitCause, liqVars>>
       ELSE \/ /\ Fail("is_liquidable")
               /\ UNCHANGED <<position_keys, liqVars>>
            \/ /\ position_keys' = Tail(position_keys)     \* Ok(false): continue
               /\ UNCHANGED <<pc, exitCause, liqVars>>
            \/ /\ pc' = "liq_build"                        \* Ok(true)
               /\ ClearLocals
               /\ result' = None
               /\ UNCHANGED <<position_keys, exitCause>>
    /\ UNCHANGED <<receiverHeld, tickDue, channel, senderAlive, positions,
                   positions_to_delete, new_position, saveCalls, noRetry, failedKeys, subVars>>

\* a mutant of the error handling: the error of the attempt is propagated
\* with `?` instead of being classified
HandleAttemptPropagating ==
    /\ pc = "liq_ret"
    /\ IF Unwrap(result).ok
       THEN /\ pc' = "refresh"
            /\ UNCHANGED exitCause
       ELSE Fail(Unwrap(result).at)
    /\ UNCHANGED <<position_keys, positions_to_delete, noRetry, failedKeys, result>>
    /\ ClearLocals
    /\ UNCHANGED <<receiverHeld, tickDue, channel, senderAlive, positions,
                   new_position, saveCalls, subVars>>

\* a mutant of the error handling: every failed attempt ends with `continue`,
\* so that only a successful attempt is followed by the refresh
HandleAttemptSkipsRefresh ==
    /\ pc = "liq_ret"
    /\ IF Unwrap(result).ok
       THEN /\ pc' = "refresh"
            /\ UNCHANGED <<position_keys, positions_to_delete, noRetry, failedKeys>>
       ELSE /\ positions_to_delete' =
                  IF HasMarker(Unwrap(result))
                  THEN Append(positions_to_delete, CurrentKey)
                  ELSE positions_to_delete
            /\ noRetry' = IF HasMarker(Unwrap(result))
                          THEN noRetry \cup {CurrentKey} ELSE noRetry
            /\ failedKeys' = IF HasMarker(Unwrap(result))
                             THEN failedKeys ELSE failedKeys \cup {CurrentKey}
            /\ position_keys' = Tail(position_keys)
            /\ pc' = "sweep"
    /\ ClearLocals
    /\ UNCHANGED <<receiverHeld, tickDue, channel, senderAlive, positions,
                   new_position, saveCalls, exitCause, result, subVars>>

\* a mutant of the error handling: every failed attempt queues the position
\* for removal, with or without the marker
HandleAttemptRemovesFailed ==
    /\ pc = "liq_ret"
    /\ IF Unwrap(result).ok
       THEN /\ pc' = "refresh"
            /\ UNCHANGED <<position_keys, positions_to_delete, noRetry, failedKeys>>
       ELSE /\ positions_to_delete' = Append(positions_to_delete, CurrentKey)
            /\ noRetry' = noRetry \cup {CurrentKey}
            /\ failedKeys' = IF HasMarker(Unwrap(result))
                             THEN failedKeys ELSE failedKeys \cup {CurrentKey}
            /\ position_keys' = Tail(position_keys)
            /\ pc' = "sweep"
    /\ ClearLocals
    /\ UNCHANGED <<receiverHeld, tickDue, channel, senderAlive, positions,
                   new_position, saveCalls, exitCause, result, subVars>>

\* lines 152-164: what the sweep does with the result of liquidate_position
HandleAttempt ==
    /\ pc = "liq_ret"
    /\ IF ~Unwrap(result).ok /\ HasMarker(Unwrap(result))
       THEN /\ positions_to_delete' = Append(positions_to_delete, CurrentKey)
            /\ noRetry' = noRetry \cup {CurrentKey}
            /\ position_keys' = Tail(position_keys)        \* continue
            /\ pc' = "sweep"
            /\ UNCHANGED failedKeys
       ELSE /\ pc' = "refresh"
            /\ failedKeys' = IF Unwrap(result).ok THEN failedKeys
                                                 ELSE failedKeys \cup {CurrentKey}
            /\ UNCHANGED <<position_keys, positions_to_delete, noRetry>>
    /\ ClearLocals
    /\ UNCHANGED <<receiverHeld, tickDue, channel, senderAlive, positions,
                   new_position, saveCalls, exitCause, result, subVars>>

\* lines 166-168: position.update(..).await? after the attempt
RefreshPosition ==
    /\ pc = "refresh"
    /\ \/ /\ Fail("refresh")
          /\ UNCHANGED <<positions, position_keys, result>>
       \/ /\ \E closed \in BOOLEAN :
               positions' = [positions EXCEPT
                                ![CurrentKey] = Some(MkPosition(CurrentKey, closed))]
          /\ position_keys' = Tail(position_keys)
          /\ result' = None
          /\ pc' = "sweep"
          /\ UNCHANGED exitCause
    /\ UNCHANGED <<receiverHeld, tickDue, channel, senderAlive,
                   positions_to_delete, new_position, saveCalls, noRetry, failedKeys,
                   txs, queries, receipt, redeemer, highest_query, highest_score,
                   total_earnings, subVars>>

\* the elements of a sequence
Range(seq) == {seq[i] : i \in DOMAIN seq}

\* lines 172-176: the queued removals, then Ok(())
FinishSweep ==
    /\ pc = "sweep"
    /\ position_keys = <<>>
    /\ positions' = [k \in Keys |->
                        IF k \in Range(positions_to_delete) THEN None ELSE positions[k]]
    /\ positions_to_delete' = <<>>
    /\ result' = None
    /\ pc' = "lock"
    /\ UNCHANGED <<receiverHeld, tickDue, channel, senderAlive, position_keys,
                   new_position, saveCalls, exitCause, noRetry, failedKeys,
                   txs, queries, receipt, redeemer, highest_query, highest_score,
                   total_earnings, subVars>>

\* ------------------------------------------------------------ environment
Running == pc # "failed"

\* the period of update_interval elapses
TimerElapses ==
    /\ Running
    /\ ~tickDue
    /\ tickDue' = TRUE
    /\ UNCHANGED <<pc, receiverHeld, channel, senderAlive, positions,
                   position_keys, positions_to_delete, new_position, saveCalls,
                   exitCause, noRetry, failedKeys, liqVars, subVars>>

\* the indexer sends (block_number, position) on the channel
SendUpdate ==
    /\ Running
    /\ senderAlive
    /\ Len(channel) < MaxChan
    /\ \E h \in Heights, k \in Keys :
          channel' = Append(channel, [block |-> h, key |-> k])
    /\ UNCHANGED <<pc, receiverHeld, tickDue, senderAlive, positions,
                   position_keys, positions_to_delete, new_position, saveCalls,
                   exitCause, noRetry, failedKeys, liqVars, subVars>>

\* the sending end is dropped
DropSender ==
    /\ Running
    /\ senderAlive
    /\ senderAlive' = FALSE
    /\ UNCHANGED <<pc, receiverHeld, tickDue, channel, positions,
                   position_keys, positions_to_delete, new_position, saveCalls,
                   exitCause, noRetry, failedKeys, liqVars, subVars>>

\* the receipts, claimants and reference scores of the loop specification
LoopReceipts == {<<>>, <<LiquidationEvent(MkU256(2, 0))>>}
LoopRedeemers == {MkRedeemer(p, s) : p \in Players, s \in {0, 1}}
LoopScores == {0, 2}

\* the state after MonitoringService::new, as run_forever is entered; the
\* first tick of an interval completes at once
Init ==
    /\ pc = "lock"
    /\ receiverHeld = FALSE
    /\ tickDue = TRUE
    /\ channel = <<>>
    /\ senderAlive = TRUE
    /\ positions = StoreOf({})
    /\ position_keys = <<>>
    /\ positions_to_delete = <<>>
    /\ new_position = None
    /\ saveCalls = <<>>
    /\ exitCause = "none"
    /\ noRetry = {}
    /\ failedKeys = {}
    /\ LiqIdle
    /\ SubIdle

Next ==
    \/ LockReceiver
    \/ Tick
    \/ ReceiveUpdate
    \/ ReceiveNone
    \/ UpdateNewPosition
    \/ SaveStore
    \/ CheckLiquidable
    \/ BuildLiquidationTx
    \/ ExecuteLiquidationTx
    \/ WaitForTx(LoopReceipts)
    \/ FindNextPlayerInQueue(LoopRedeemers)
    \/ GetHighestScore(LoopScores)
    \/ ExecuteDistributionTx
    \/ WaitForDistributionTx
    \/ HandleAttempt
    \/ RefreshPosition
    \/ FinishSweep
    \/ TimerElapses
    \/ SendUpdate
    \/ DropSender

Spec == Init /\ [][Next]_vars

\* the steps of run_forever and of what it calls; the timer and the sender of
\* the channel are the environment
Step ==
    \/ LockReceiver
    \/ Tick
    \/ ReceiveUpdate
    \/ ReceiveNone
    \/ UpdateNewPosition
    \/ SaveStore
    \/ CheckLiquidable
    \/ BuildLiquidationTx
    \/ ExecuteLiquidationTx
    \/ WaitForTx(LoopReceipts)
    \/ FindNextPlayerInQueue(LoopRedeemers)
    \/ GetHighestScore(LoopScores)
    \/ ExecuteDistributionTx
    \/ WaitForDistributionTx
    \/ HandleAttempt
    \/ RefreshPosition
    \/ FinishSweep

\* every await of the task resolves, and the select, which polls its ready
\* branches in random order, does not pass over the recv branch forever
FairSpec == Spec /\ WF_vars(Step) /\ SF_vars(ReceiveNone)

\* ------------------------------------------------------------------ claims
Zero256 == MkU256(0, 0)

\* the amount a transfer call moves
CallAmount(call) == MkU256(call.calldata[2], call.calldata[3])

\* the distribution transactions submitted in this attempt
TransferTxs == {i \in DOMAIN txs : txs[i].kind = "transfer"}

\* C1: whenever a < b as 256-bit integers, a - b is zero in both limbs.
C1_SubSaturatesToZero ==
    (IsSome(diff) /\ Value(lhs) < Value(rhs)) => Unwrap(diff) = Zero256

\* C2: whenever a >= b, a - b is the exact difference, with or without a
\* borrow from the high limb.
C2_SubExact ==
    (IsSome(diff) /\ Value(lhs) >= Value(rhs))
        => Value(Unwrap(diff)) = Value(lhs) - Value(rhs)

\* C2 witness: a subtraction with a >= b whose low limb borrowed.
C2_Witness ==
    /\ IsSome(diff)
    /\ Value(lhs) >= Value(rhs)
    /\ lhs.low < rhs.low
    /\ Unwrap(diff).high = lhs.high - rhs.high - 1

\* C3: in every distribution transaction the share and the remainder add up
\* to the proceeds and neither exceeds them.
C3_DistributionConserves ==
    \A i \in TransferTxs :
        LET share == CallAmount(txs[i].calls[1])
            remainder == CallAmount(txs[i].calls[2])
            total == Unwrap(total_earnings).amount
        IN  /\ Value(share) + Value(remainder) = Value(total)
            /\ Value(share) <= Value(total)
            /\ Value(remainder) <= Value(total)

\* C8: once the reference score used is 0, liquidate_position has returned
\* success and no transfer transaction was submitted.
C8_ZeroReferenceSkips ==
    (highest_score = Some(0))
        => /\ pc = "liq_ret"
           /\ result = Some(Ok)
           /\ TransferTxs = {}
           /\ total_earnings = None

\* C8 witness: the reference query found no record, the claimant's score of
\* 0 was used, and the attempt returned after the liquidation alone.
C8_Witness ==
    /\ pc = "liq_ret"
    /\ highest_query = Some(None)
    /\ highest_score = Some(0)
    /\ Len(txs) = 1

\* C9: when the reference query returns no record, the claimant's score is
\* the reference, the share is the whole proceeds in both limbs and the
\* remainder is 0.
C9_FallbackSharesEverything ==
    (highest_query = Some(None))
        => /\ highest_score = Some(Unwrap(redeemer).score)
           /\ \A i \in TransferTxs :
                /\ CallAmount(txs[i].calls[1]) = Unwrap(total_earnings).amount
                /\ CallAmount(txs[i].calls[2]) = Zero256

\* the proportional share T * s / r in integers
ProportionalShare(total, score, reference) == (Value(total) * score) \div reference

FromValue(v) == MkU256(v % LimbMod, v \div LimbMod)

\* C10: a successful attempt with a matching event of amount T, a claimant
\* of score s and a reference r >= s > 0 submits, after the liquidation, one
\* transaction of two transfers of the asset: T*s/r to the claimant, then
\* T - share to the fallback sink.
C10_OneDistributionOfExactShares ==
    (/\ pc = "liq_ret"
     /\ result = Some(Ok)
     /\ IsSome(total_earnings)
     /\ Unwrap(redeemer).score <= Unwrap(highest_score))
        => LET earnings == Unwrap(total_earnings)
               T == earnings.amount
               share == ProportionalShare(T, Unwrap(redeemer).score, Unwrap(highest_score))
           IN  txs = <<LiquidationTx(CurrentKey),
                       [kind |-> "transfer", key |-> CurrentKey,
                        calls |-> <<build_erc20_transfer_call(
                                        earnings.asset, PlayerAddress, FromValue(share)),
                                    build_erc20_transfer_call(
                                        earnings.asset, WorldAddress,
                                        FromValue(Value(T) - share))>>]>>

\* the await points of a sweep
SweepPcs == {"sweep", "liq_build", "liq_exec", "liq_wait", "liq_queue",
             "liq_highest", "dist_exec", "dist_wait", "liq_ret", "refresh"}

\* a closed position is in the store
ClosedStored == \E k \in Keys : IsSome(positions[k]) /\ is_closed(Unwrap(positions[k]))

\* C4: between two iterations of run_forever the store holds no closed
\* position.
C4_NoClosedPositionStored == (pc = "lock") => ~ClosedStored

\* C5: once the sweep in which an attempt failed with the marker has ended,
\* however it ended, the position is out of the store until an update for
\* its key is received.
C5_MarkerFailureRemoves ==
    (pc \notin SweepPcs) => \A k \in noRetry : ~IsSome(positions[k])

\* C6: no step of a sweep ends run_forever.
C6_SweepNeverAborts == [][(pc \in SweepPcs) => (pc' # "failed")]_vars

\* C6 amended: a failed liquidation attempt does not end the sweep; the sweep
\* goes on to the refresh of the position or to the next key, with every
\* later key still to be evaluated.
C6_FailedAttemptKeepsSweeping ==
    [][(pc = "liq_ret" /\ ~Unwrap(result).ok /\ pc' # pc)
          => /\ pc' \in {"sweep", "refresh"}
             /\ exitCause' = "none"
             /\ position_keys' \in {position_keys, Tail(position_keys)}]_vars

\* C6 witness: an attempt has failed and the sweep is refreshing the
\* position with another key still to be evaluated.
C6_Witness ==
    /\ pc = "refresh"
    /\ IsSome(result)
    /\ ~Unwrap(result).ok
    /\ Len(position_keys) = 2

\* the wait for the liquidation transaction has failed
WaitFailed == pc = "liq_ret" /\ ~Unwrap(result).ok /\ Unwrap(result).at = "wait_for_tx"

IsPrefix(s, t) == Len(s) <= Len(t) /\ SubSeq(t, 1, Len(s)) = s

\* C11: when the tick is due and an update is buffered at the select, the step
\* out of the select takes exactly one branch.  The tick branch starts the sweep
\* and leaves the channel as it is; the recv branch takes the head of the
\* channel, leaves the rest in order and leaves the tick due.  Until the next
\* select the channel is only appended to and a due tick stays due.
C11_SelectTakesOneBranch ==
    /\ [][(pc = "select" /\ tickDue /\ channel # <<>> /\ pc' # pc) =>
            \/ /\ pc' \in {"sweep", "lock"}
               /\ tickDue' = FALSE
               /\ channel' = channel
               /\ new_position' = None
            \/ /\ pc' = "update"
               /\ tickDue' = TRUE
               /\ channel' = Tail(channel)
               /\ new_position' = Some(Head(channel))]_vars
    /\ [][pc # "select" => (IsPrefix(channel, channel') /\ (tickDue => tickDue'))]_vars

\* the recv branch was taken while the tick is due and a second update is buffered
C11_Witness == pc = "update" /\ tickDue /\ Len(channel) = 1

\* the events of a receipt that come from the liquidation contract with the
\* Liquidation selector as first key, in order
RECURSIVE MatchingEvents(_)
MatchingEvents(evs) ==
    IF evs = <<>> THEN <<>>
    ELSE IF EventMatches(Head(evs), LiquidateAddress)
         THEN <<Head(evs)>> \o MatchingEvents(Tail(evs))
         ELSE MatchingEvents(Tail(evs))

\* the (asset_address, amount_low, amount_high) one event carries, if any
Decoded(event) ==
    IF Len(event.data) >= 3 /\ event.data[2] <= U128Max /\ event.data[3] <= U128Max
    THEN Some([asset |-> event.data[1], amount |-> MkU256(event.data[2], event.data[3])])
    ELSE None

\* C12: the result of parse_liquidation_event is decided by the first matching
\* event of the receipt alone: nothing when no event matches, nothing when the
\* first matching event has fewer than 3 payload elements, else that event's
\* decoded triple.
C12_FirstMatchingEventDecides ==
    IsSome(extracted) =>
        Unwrap(extracted) = IF MatchingEvents(input_events) = <<>> THEN None
                            ELSE Decoded(Head(MatchingEvents(input_events)))

\* the errors run_forever propagates: the closed channel (line 122) and the `?`
\* of lines 105, 114, 119, 145 and 168
FatalCauses == {"channel_closed", "update", "save", "is_liquidable", "refresh"}

\* C13: run_forever has no successful return: while it has not failed it has a
\* next step or waits in the select; it stops only with an error, which is the closed and drained
\* channel or a propagated refresh, liquidability-check or persistence error;
\* and once the channel is closed and drained the loop eventually stops with an
\* error.
C13_StopsOnlyWithError ==
    /\ [](pc # "failed" => (exitCause = "none" /\ (pc = "select" \/ ENABLED Step)))
    /\ [](pc = "failed" => exitCause \in FatalCauses)
    /\ [](exitCause = "channel_closed" => (channel = <<>> /\ ~senderAlive))
    /\ (channel = <<>> /\ ~senderAlive) ~> (pc = "failed")

\* the loop has stopped on the closed channel after it had stored a position
C13_Witness ==
    pc = "failed" /\ exitCause = "channel_closed" /\ StoredKeys # {}

\* C14: when the update taken from the channel reports closed after its refresh
\* (the iteration goes from the refresh straight back to the top of the loop),
\* the store holds no entry under that position's key.
C14_ClosedUpdateLeavesNoEntry ==
    [][(pc = "update" /\ pc' = "lock") =>
            ~IsSome(positions'[Unwrap(new_position).key])]_vars

\* the attempt that has just returned failed with the not-undercollateralized marker
MarkerFailure == IsSome(result) /\ ~Unwrap(result).ok /\ HasMarker(Unwrap(result))

\* C15: after every liquidation attempt, whatever its outcome, the next step of
\* the sweep is the refresh of that position, before the sweep moves to the next
\* key.
C15_EveryAttemptRefreshed ==
    [][(pc = "liq_ret" /\ pc' # pc) =>
            (pc' = "refresh" /\ position_keys' = position_keys)]_vars

\* C15, amended: an attempt that succeeded or failed without the marker is
\* followed by the refresh of that position, and the sweep moves to the next key
\* only once the refresh has been done; an attempt that failed with the marker
\* is not refreshed: its key is queued for removal and the sweep moves on.
C15_RefreshUnlessMarker ==
    /\ [][(pc = "liq_ret" /\ pc' # pc) =>
            IF MarkerFailure
            THEN /\ pc' = "sweep"
                 /\ position_keys' = Tail(position_keys)
                 /\ positions_to_delete' = Append(positions_to_delete, CurrentKey)
                 /\ positions' = positions
            ELSE /\ pc' = "refresh"
                 /\ position_keys' = position_keys]_vars
    /\ [][(pc = "refresh" /\ pc' # pc) =>
            \/ pc' = "failed" /\ exitCause' = "refresh"
            \/ /\ pc' = "sweep"
               /\ position_keys' = Tail(position_keys)
               /\ IsSome(positions'[CurrentKey])]_vars

\* in one sweep a marker failure has skipped the refresh and a later, successful
\* attempt has reached it
C15_Witness ==
    pc = "refresh" /\ result = Some(Ok) /\ positions_to_delete # <<>>

\* C16: a position whose attempt failed without the not-undercollateralized
\* marker is not queued for removal and is still in the store during the rest of
\* the sweep and when the sweep is over; the failure does not stop the loop (the
\* next step is the position's refresh); and the sweep of the next tick covers
\* every stored key, this position included, so that it is attempted again if
\* is_liquidable still reports it liquidable.
C16_FailedAttemptKeepsPosition ==
    /\ [](\A k \in failedKeys :
            IsSome(positions[k]) /\ k \notin Range(positions_to_delete))
    /\ [][(pc = "liq_ret" /\ ~Unwrap(result).ok /\ ~HasMarker(Unwrap(result))
              /\ pc' # pc) =>
            /\ pc' = "refresh"
            /\ exitCause' = "none"
            /\ CurrentKey \in failedKeys']_vars
    /\ [][(pc = "select" /\ pc' = "sweep") => Range(position_keys') = StoredKeys]_vars
    /\ [][(pc = "sweep" /\ pc' = "liq_build") =>
            (IsSome(positions[CurrentKey]) /\ result' = None)]_vars

\* a sweep is over, an attempt of it failed without the marker and its position
\* is stored
C16_Witness ==
    pc = "lock" /\ failedKeys # {} /\ failedKeys \subseteq StoredKeys

\* C17: an update that is not closed after its refresh is stored under its key,
\* then save is called once, with the whole store, which holds that position,
\* and with the height of the update; nothing is taken from the channel and no
\* tick is consumed in between.  An update that reports closed changes nothing
\* in the store and causes no save call.  save is called nowhere else.
C17_OpenUpdateSavedOnce ==
    /\ [][(pc = "update" /\ pc' = "save") =>
            /\ positions' = [positions EXCEPT ![Unwrap(new_position).key] =
                                Some(MkPosition(Unwrap(new_position).key, FALSE))]
            /\ new_position' = new_position
            /\ saveCalls' = <<>>]_vars
    /\ [][(pc = "save" /\ pc' # pc) =>
            /\ saveCalls' = <<SaveCall(positions, Unwrap(new_position).block)>>
            /\ IsSome(positions[Unwrap(new_position).key])
            /\ positions' = positions
            /\ pc' \in {"lock", "failed"}]_vars
    /\ [][(pc = "update" /\ pc' = "lock") =>
            (positions' = positions /\ saveCalls' = <<>>)]_vars
    /\ [][(pc \in {"update", "save"}) =>
            (IsPrefix(channel, channel') /\ (tickDue => tickDue'))]_vars
    /\ [][(saveCalls' # saveCalls) => (pc \in {"save", "lock"})]_vars
    /\ [](Len(saveCalls) <= 1)

\* the second position has been stored and saved, at height 2, with the first
\* one in the snapshot
C17_Witness ==
    /\ pc = "lock"
    /\ saveCalls = <<SaveCall(positions, 2)>>
    /\ Cardinality(StoredKeys) = 2

\* the steps of liquidate_position up to the confirmation of the liquidation
BeforeConfirmation == {"get_vesu_liquidate_tx", "execute_txs", "wait_for_tx"}

\* liquidate_position has returned the error of one of these steps
EarlyFailure ==
    /\ pc = "liq_ret"
    /\ ~Unwrap(result).ok
    /\ Unwrap(result).at \in BeforeConfirmation

\* C18: when liquidate_position fails in building, submitting or awaiting the
\* liquidation transaction, no claim-queue or reference-score query has been
\* issued and no transfer transaction has been submitted; more generally none
\* of these happens as long as no confirmed receipt is at hand.
C18_EarlyFailureStopsThere ==
    /\ EarlyFailure => (queries = <<>> /\ TransferTxs = {} /\ ~IsSome(receipt))
    /\ ~IsSome(receipt) => (queries = <<>> /\ TransferTxs = {})

\* the liquidation was submitted and its confirmation failed
C18_Witness ==
    EarlyFailure /\ Unwrap(result).at = "wait_for_tx" /\ Len(txs) = 1

\* C19: the guard of the receiver is held exactly while run_forever waits in
\* the select: it is not held in a sweep, in a refresh, in a liquidation or a
\* distribution call, in a save or after the loop has stopped, and it is taken
\* only by the lock at the start of an iteration.
C19_GuardHeldOnlyInSelect ==
    /\ [](receiverHeld <=> pc = "select")
    /\ [][(~receiverHeld /\ receiverHeld') => (pc = "lock" /\ pc' = "select")]_vars

\* the distribution of a sweep is awaited with the guard released and an update
\* waiting in the channel
C19_Witness ==
    pc = "dist_wait" /\ ~receiverHeld /\ channel # <<>>

\* the two queries of the distribution
DistributionQueries == {"find_next_player_in_queue", "get_highest_score"}

\* liquidate_position has returned the error of one of the two queries
QueryFailure ==
    /\ pc = "liq_ret"
    /\ ~Unwrap(result).ok
    /\ Unwrap(result).at \in DistributionQueries

\* C20: when the claim-queue or the reference-score query fails, the
\* liquidation has been submitted and confirmed and no transfer transaction is
\* submitted for it; the error never ends run_forever; the sweep goes on with
\* the refresh of the position, which is neither removed nor queued for
\* removal, and with the keys that remain.
C20_QueryFailureAbortsDistributionOnly ==
    /\ [](QueryFailure =>
            /\ TransferTxs = {}
            /\ txs = <<LiquidationTx(CurrentKey)>>
            /\ IsSome(receipt))
    /\ [](exitCause \notin DistributionQueries)
    /\ [][(QueryFailure /\ pc' # pc) =>
            /\ pc' = "refresh"
            /\ position_keys' = position_keys
            /\ positions' = positions
            /\ positions_to_delete' = positions_to_delete
            /\ CurrentKey \in failedKeys']_vars
    /\ [](\A k \in failedKeys : k \in StoredKeys)

\* the reference-score query of the first of two swept positions has failed and
\* the sweep is at that position's refresh
C20_Witness ==
    /\ pc = "refresh"
    /\ result = Some(Err("get_highest_score", FALSE))
    /\ Len(position_keys) = 2
    /\ CurrentKey \in StoredKeys

====
